---- MODULE Spec2Model ----
(***************************************************************************)
(* Model of src/main.py (the "Server Architect" Discord bot).              *)
(*                                                                         *)
(* State: the process-wide dictionary user_conversations and a pool of     *)
(* handler invocations (coroutines).  Every handler is cut at its await    *)
(* points: one action is the synchronous code that runs between the        *)
(* completion of one awaited call and the issue of the next, so handlers   *)
(* of the single-threaded event loop interleave exactly there.  Every      *)
(* awaited call to Discord or to the generation service can succeed or     *)
(* raise; the platform's answers (existing channels, existing roles) and   *)
(* the assistant's reply are inputs drawn from bounded sets.               *)
(***************************************************************************)
EXTENDS Naturals, Sequences, FiniteSets, TLC

VARIABLES
    user_conversations,  \* the dictionary of line 69: user id -> session, or None
    task,                \* the handler invocations of the event loop
    guild,               \* what the platform holds for each guild
    nextSid              \* numbers the dictionaries line 157 creates (history)

vars == <<user_conversations, task, guild, nextSid>>

(***************************************************************************)
(* Bounds                                                                  *)
(***************************************************************************)
NumUsers == 2
NumGuilds == 2
MaxTasks == 3
MaxExistingChannels == 2
MaxExistingRoles == 2
MaxPlanRoles == 2
MaxPlanCats == 2
MaxPlanChannels == 2

Users == 1..NumUsers
Guilds == 1..NumGuilds
Tasks == 1..MaxTasks

(***************************************************************************)
(* Strings that the code transforms are sequences of characters, so that   *)
(* str.lower() is computed and not assumed.                                *)
(***************************************************************************)
LowerChar(c) ==
    CASE c = "T" -> "t"
      [] c = "E" -> "e"
      [] c = "X" -> "x"
      [] c = "V" -> "v"
      [] c = "O" -> "o"
      [] c = "I" -> "i"
      [] c = "C" -> "c"
      [] OTHER -> c

Lower(s) == [i \in 1..Len(s) |-> LowerChar(s[i])]

StrText == <<"t", "e", "x", "t">>
StrVoice == <<"v", "o", "i", "c", "e">>

\* The values of a channel entry's "type" the model draws from.
TypeStrings ==
    { StrText, <<"T", "E", "X", "T">>, <<"T", "e", "x", "t">>,
      StrVoice, <<"V", "o", "i", "c", "e">>,
      <<"f", "o", "r", "u", "m">> }

\* A channel entry of the plan: tkind says whether the "type" key is absent
\* ("missing"), holds a string ("str", the string is tval) or holds a JSON
\* value that is no string ("null").
ChannelEntries ==
    { [name |-> "general", tkind |-> "str", tval |-> s] : s \in TypeStrings }
    \cup { [name |-> "general", tkind |-> k, tval |-> <<>>] : k \in {"missing", "null"} }
    \cup { [name |-> "", tkind |-> k, tval |-> <<>>] : k \in {"missing", "null"} }

\* channel_info.get("type", "text"): the value .lower() is called on.
TypeOrDefault(e) == IF e.tkind = "missing" THEN StrText ELSE e.tval

\* channel_info.get("type", "text").lower() raises AttributeError on a non-string.
TypeRaises(e) == e.tkind = "null"

ChannelTypeNoLower(e) == TypeOrDefault(e)

ChannelType(e) == Lower(TypeOrDefault(e))

\* Which create call lines 279-282 issue for a lowered type: "text", "voice",
\* or "none" when neither branch of the if/elif is taken.
CreateKind(ct) ==
    IF ct = StrText THEN "text" ELSE IF ct = StrVoice THEN "voice" ELSE "none"

(***************************************************************************)
(* Plans: the object json.loads returns.                                   *)
(***************************************************************************)
RoleNames == {"", "@everyone", "Admin"}

RECURSIVE SeqsUpTo(_, _)
SeqsUpTo(S, n) ==
    IF n = 0 THEN {<<>>}
    ELSE LET shorter == SeqsUpTo(S, n - 1)
         IN  shorter \cup { Append(s, x) : s \in {q \in shorter : Len(q) = n - 1}, x \in S }

\* Categories whose channel list has at most b entries.  A category without a
\* name is skipped before its channels are read, so one representative is enough.
CategoriesWithin(b) ==
    { [name |-> "Main", channels |-> cs] : cs \in SeqsUpTo(ChannelEntries, b) }
    \cup { [name |-> "", channels |-> <<>>] }

\* Category lists of at most n categories holding at most b channel entries in all.
RECURSIVE CategoryLists(_, _)
CategoryLists(n, b) ==
    IF n = 0 THEN {<<>>}
    ELSE {<<>>} \cup
         UNION { LET rests == CategoryLists(n - 1, b - k)
                 IN  { <<c>> \o rest :
                         c \in {x \in CategoriesWithin(b) : Len(x.channels) = k},
                         rest \in rests }
                 : k \in 0..b }

TextChannel == [name |-> "general", tkind |-> "str", tval |-> StrText]

\* The category of Scenario A of the specification.
ScenarioCategories == << [name |-> "Main", channels |-> <<TextChannel>>] >>

\* A JSON value that is no object (json.loads accepts it, data.get raises).
NonObject ==
    [is_object |-> FALSE, has_name |-> FALSE, roles |-> <<>>, categories |-> <<>>]

\* Plans that vary the roles (wipe and role steps).
RolePlans ==
    { [is_object |-> TRUE, has_name |-> h, roles |-> rs, categories |-> cs] :
        h \in BOOLEAN, rs \in SeqsUpTo(RoleNames, MaxPlanRoles),
        cs \in {<<>>, ScenarioCategories} }

\* Plans that vary the categories and channels (rebuild step).
CategoryPlans ==
    { [is_object |-> TRUE, has_name |-> TRUE, roles |-> <<>>, categories |-> cs] :
        cs \in CategoryLists(MaxPlanCats, MaxPlanChannels) }

\* The plan `{}`: every key is optional.
EmptyPlan ==
    [is_object |-> TRUE, has_name |-> FALSE, roles |-> <<>>, categories |-> <<>>]

\* The plans the generation service answers with in the dialogue model.
ReplyPlans == {EmptyPlan}

(***************************************************************************)
(* The assistant's reply, as a sequence of tokens: "F" is a fence of three *)
(* backquotes, "json" the language tag, "NL" a line break, "JO" the text   *)
(* of a JSON object, "JV" the text of a JSON value that is no object, "X"  *)
(* text that is no JSON, "P" prose.  (The chunks hold no backquote and no  *)
(* line break.)                                                            *)
(***************************************************************************)
Marker == <<"F", "json">>
OpenSep == <<"F", "json", "NL">>
CloseSep == <<"NL", "F">>

MatchAt(s, pat, i) ==
    /\ i + Len(pat) - 1 <= Len(s)
    /\ SubSeq(s, i, i + Len(pat) - 1) = pat

\* Python's `pat in s`.
Contains(s, pat) == \E i \in 1..Len(s) : MatchAt(s, pat, i)

\* Index of the first occurrence of pat in s, 0 when there is none.
FirstIdx(s, pat) ==
    IF Contains(s, pat)
    THEN CHOOSE i \in 1..Len(s) :
            MatchAt(s, pat, i) /\ \A j \in 1..(i - 1) : ~MatchAt(s, pat, j)
    ELSE 0

\* s.split(pat)[0]
SplitHead(s, pat) ==
    IF FirstIdx(s, pat) = 0 THEN s ELSE SubSeq(s, 1, FirstIdx(s, pat) - 1)

\* len(s.split(pat)) > 1
SplitHasSecond(s, pat) == FirstIdx(s, pat) # 0

\* s.split(pat)[1], defined when SplitHasSecond(s, pat)
SplitSecond(s, pat) ==
    SplitHead(SubSeq(s, FirstIdx(s, pat) + Len(pat), Len(s)), pat)

RECURSIVE StripLeft(_)
StripLeft(s) ==
    IF s # <<>> /\ Head(s) = "NL" THEN StripLeft(Tail(s)) ELSE s

RECURSIVE StripRight(_)
StripRight(s) ==
    IF s # <<>> /\ s[Len(s)] = "NL" THEN StripRight(SubSeq(s, 1, Len(s) - 1)) ELSE s

\* json.loads(s): "object", "value" or "JSONDecodeError".
JsonLoads(s) ==
    LET body == StripRight(StripLeft(s))
    IN  IF body = <<"JO">> THEN "object"
        ELSE IF body = <<"JV">> THEN "value"
        ELSE "JSONDecodeError"

\* ai_response.split("```json\n")[1].split("\n```")[0]
JsonString(text) == SplitHead(SplitSecond(text, OpenSep), CloseSep)

\* Lines 211-212 of handle_json_and_create_server.
Extract(text) ==
    IF ~SplitHasSecond(text, OpenSep) THEN "IndexError" ELSE JsonLoads(JsonString(text))

\* Line 115 of on_message.
IsTerminal(text) == Contains(text, Marker)

\* The replies the generation service answers with in the full model.
ReplyTexts ==
    { <<"P">>,
      <<"F", "json", "NL", "JO", "NL", "F">>,
      <<"P", "F", "json", "NL", "JO", "NL", "F", "P">>,
      <<"F", "json", "NL", "JV", "NL", "F">>,
      <<"F", "json", "NL", "X", "NL", "F">>,
      <<"F", "json", "JO", "F">>,
      <<"F", "json", "NL", "JO">> }

(***************************************************************************)
(* State                                                                   *)
(***************************************************************************)
SystemTurn == "system"
UserTurn == "user"
AssistantTurn == "assistant"

\* A handler invocation that has not been dispatched yet.
IdleTask ==
    [kind |-> "idle", user |-> 0, guild |-> 0, pc |-> "idle", admin |-> FALSE,
     sid |-> 0, gen |-> "none", marker |-> FALSE, extract |-> "none",
     plan |-> NonObject, chans |-> <<>>, ci |-> 0, roles |-> <<>>, ri |-> 0,
     pi |-> 0, cati |-> 0, chi |-> 0, log |-> <<>>,
     reply |-> <<>>, visible |-> TRUE, rsid |-> 0]

Ev(op, what, arg, res) == [op |-> op, what |-> what, arg |-> arg, res |-> res]

Logged(r, op, what, arg, res) == [r EXCEPT !.log = Append(@, Ev(op, what, arg, res))]

\* The handler returns; its locals are gone.
Finished(r) == [IdleTask EXCEPT !.kind = "over", !.pc = "done"]

\* Line 96 is false for a direct message: the handler returns at once.
Ignored(r) == [IdleTask EXCEPT !.kind = "over", !.pc = "ignored"]

\* An exception leaves the handler uncaught (the library logs it).
Crashed(r) == [IdleTask EXCEPT !.kind = "over", !.pc = "crashed"]

\* The value standing for "no entry under this key".
None == [messages |-> <<>>, guild_id |-> 0, sid |-> 0]

\* `user_id in user_conversations`
HasConversation(u) == user_conversations[u] # None

\* Lines 157-162.
NewConversation(g, s) ==
    [messages |-> <<SystemTurn>>, guild_id |-> g, sid |-> s]

\* A guild with no channel and the default role only.
DefaultRole == [id |-> 1, kind |-> "default"]
EmptyGuild == [channels |-> {}, roles |-> {DefaultRole}]

Max(S) == CHOOSE x \in S : \A y \in S : y <= x
Min(S) == CHOOSE x \in S : \A y \in S : x <= y
FreshId(S) == IF S = {} THEN 1 ELSE Max(S) + 1

RECURSIVE Sorted(_)
Sorted(S) == IF S = {} THEN <<>> ELSE <<Min(S)>> \o Sorted(S \ {Min(S)})

\* guild.roles: the roles ordered, the default role first.
RoleSeq(R) ==
    LET ids == Sorted({x.id : x \in R})
    IN  [i \in 1..Len(ids) |-> CHOOSE x \in R : x.id = ids[i]]

\* Outcomes of an awaited call.
SendResults == {"ok", "Exception"}
DmResults == {"ok", "Forbidden", "Exception"}
ApiResults == {"ok", "HTTPException", "Exception"}
RoleDeleteResults == {"ok", "Forbidden", "HTTPException", "Exception"}
CreateResults == {"ok", "Exception"}

\* The event loop creates one handler invocation per event; invocations are
\* numbered in the order of their events.
NextIdle(t) ==
    /\ task[t].kind = "idle"
    /\ \A s \in 1..(t - 1) : task[s].kind # "idle"

Init ==
    /\ user_conversations = [u \in Users |-> None]
    /\ task = [t \in Tasks |-> IdleTask]
    /\ guild = [g \in Guilds |-> EmptyGuild]
    /\ nextSid = 1

(***************************************************************************)
(* start_command                                                           *)
(***************************************************************************)
AlreadyStartedNever(u) == FALSE

\* Line 149.
AlreadyStarted(u) == HasConversation(u)

\* Lines 138-162: up to the first awaited call.
StartCommand(t, u, g, admin) ==
    /\ NextIdle(t)
    /\ LET r == [IdleTask EXCEPT !.kind = "start", !.user = u, !.guild = g, !.admin = admin]
       IN  IF ~admin
           THEN /\ task' = [task EXCEPT ![t] = [r EXCEPT !.pc = "send_notadmin"]]
                /\ UNCHANGED <<user_conversations, nextSid>>
           ELSE IF AlreadyStarted(u)
           THEN /\ task' = [task EXCEPT ![t] = [r EXCEPT !.pc = "send_duplicate"]]
                /\ UNCHANGED <<user_conversations, nextSid>>
           ELSE /\ user_conversations' =
                       [user_conversations EXCEPT ![u] = NewConversation(g, nextSid)]
                /\ nextSid' = nextSid + 1
                /\ task' = [task EXCEPT ![t] = [r EXCEPT !.pc = "send_confirm", !.sid = nextSid]]
    /\ UNCHANGED guild

\* Lines 142-146 and 150-154: the rejection is sent and the handler returns.
StartReject(t) ==
    /\ task[t].kind = "start"
    /\ task[t].pc \in {"send_notadmin", "send_duplicate"}
    /\ \E res \in SendResults :
         task' = [task EXCEPT ![t] = IF res = "ok" THEN Finished(@) ELSE Crashed(@)]
    /\ UNCHANGED <<user_conversations, guild, nextSid>>

\* Lines 165-168: outside the try, a failure leaves the handler.
StartConfirm(t) ==
    /\ task[t].kind = "start"
    /\ task[t].pc = "send_confirm"
    /\ \E res \in SendResults :
         task' = [task EXCEPT ![t] =
                    LET r == Logged(@, "send", "confirm", <<>>, res)
                    IN  IF res = "ok" THEN [r EXCEPT !.pc = "create_dm"] ELSE Crashed(r)]
    /\ UNCHANGED <<user_conversations, guild, nextSid>>

\* Which except clause of lines 175-190 takes a failure of the try body.
StartHandler(res) == IF res = "Forbidden" THEN "followup_forbidden" ELSE "followup_error"

\* Line 172.
StartCreateDm(t) ==
    /\ task[t].kind = "start"
    /\ task[t].pc = "create_dm"
    /\ \E res \in DmResults :
         task' = [task EXCEPT ![t] =
                    LET r == Logged(@, "create_dm", "", <<>>, res)
                    IN  IF res = "ok" THEN [r EXCEPT !.pc = "send_greeting"]
                        ELSE [r EXCEPT !.pc = StartHandler(res)]]
    /\ UNCHANGED <<user_conversations, guild, nextSid>>

\* Line 173.
StartGreeting(t) ==
    /\ task[t].kind = "start"
    /\ task[t].pc = "send_greeting"
    /\ \E res \in DmResults :
         task' = [task EXCEPT ![t] =
                    LET r == Logged(@, "send", "greeting", <<>>, res)
                    IN  IF res = "ok" THEN Finished(r)
                        ELSE [r EXCEPT !.pc = StartHandler(res)]]
    /\ UNCHANGED <<user_conversations, guild, nextSid>>

\* Lines 177-184 and 188-190: the follow-up is sent, then the session is removed.
StartFollowup(t) ==
    /\ task[t].kind = "start"
    /\ task[t].pc \in {"followup_forbidden", "followup_error"}
    /\ \E res \in SendResults :
         /\ task' = [task EXCEPT ![t] = IF res = "ok" THEN Finished(@) ELSE Crashed(@)]
         /\ user_conversations' =
               IF res = "ok"
               THEN [user_conversations EXCEPT ![task[t].user] = None]
               ELSE user_conversations
    /\ UNCHANGED <<guild, nextSid>>

(***************************************************************************)
(* on_message                                                              *)
(***************************************************************************)
ReturnToOnMessageClearsAll(t, r) ==
    /\ user_conversations' = [u \in Users |-> None]
    /\ task' = [task EXCEPT ![t] = Finished(r)]

\* Line 119, reached when handle_json_and_create_server returns: the del
\* raises KeyError when the entry is gone, which line 124 catches.
ReturnToOnMessage(t, r) ==
    IF HasConversation(r.user)
    THEN /\ user_conversations' = [user_conversations EXCEPT ![r.user] = None]
         /\ task' = [task EXCEPT ![t] = Finished(r)]
    ELSE /\ task' = [task EXCEPT ![t] = [r EXCEPT !.pc = "send_apology"]]
         /\ UNCHANGED user_conversations

AcceptsAnyone(u) == TRUE

\* Line 96.
Accepts(u) == HasConversation(u)

\* Lines 89-97: the guards, up to the await that enters channel.typing().
OnMessage(t, u, dm) ==
    /\ NextIdle(t)
    /\ LET r == [IdleTask EXCEPT !.kind = "message", !.user = u]
       IN  task' = [task EXCEPT ![t] =
                      IF ~dm THEN Finished(r)
                      ELSE IF Accepts(u) THEN [r EXCEPT !.pc = "typing"]
                      ELSE Ignored(r)]
    /\ UNCHANGED <<user_conversations, guild, nextSid>>

\* Lines 97-107: typing() is entered, the user turn is appended (KeyError,
\* uncaught, when the entry is gone) and the generation request is issued.
MessageAppendUser(t) ==
    /\ task[t].kind = "message"
    /\ task[t].pc = "typing"
    /\ \E res \in SendResults :
         LET r == Logged(task[t], "typing", "", <<>>, res)
             u == task[t].user
         IN  IF res = "ok" /\ HasConversation(u)
             THEN /\ user_conversations' =
                        [user_conversations EXCEPT ![u].messages = Append(@, UserTurn)]
                  /\ task' = [task EXCEPT ![t] =
                                [r EXCEPT !.pc = "generate", !.sid = user_conversations[u].sid]]
             ELSE /\ task' = [task EXCEPT ![t] = Crashed(r)]
                  /\ UNCHANGED user_conversations
    /\ UNCHANGED <<guild, nextSid>>

ResolveGuildAlways(r, visible) == [r EXCEPT !.visible = visible, !.pc = "send_great"]

\* Lines 201-207 of handle_json_and_create_server: bot.get_guild(guild_id)
\* answers None when the bot no longer sees the guild.
ResolveGuild(r, visible) ==
    [r EXCEPT !.visible = visible, !.pc = IF visible THEN "send_great" ELSE "send_nosee"]

\* Lines 109-122, the reply being `text`.
ReplyReceived(t, text, plan, visible) ==
    LET u == task[t].user
        r == [Logged(task[t], "generate", "", <<>>, "ok")
                EXCEPT !.gen = "ok", !.reply = text, !.rsid = user_conversations[u].sid,
                       !.marker = IsTerminal(text),
                       !.extract = IF IsTerminal(text) THEN Extract(text) ELSE "none",
                       !.plan = IF IsTerminal(text) /\ Extract(text) = "object"
                                THEN plan ELSE NonObject]
    IN  IF ~HasConversation(u)
        THEN /\ task' = [task EXCEPT ![t] = [r EXCEPT !.pc = "send_apology"]]
             /\ UNCHANGED user_conversations
        ELSE /\ user_conversations' =
                   [user_conversations EXCEPT ![u].messages = Append(@, AssistantTurn)]
             /\ task' = [task EXCEPT ![t] =
                           IF IsTerminal(text)
                           THEN ResolveGuild([r EXCEPT !.guild = user_conversations[u].guild_id],
                                             visible)
                           ELSE [r EXCEPT !.pc = "send_reply"]]

\* Lines 103-122: the generation call fails, or it returns a reply, which is
\* appended (KeyError, caught at line 124, when the entry is gone) and
\* searched for the marker.
MessageReply(t) ==
    /\ task[t].kind = "message"
    /\ task[t].pc = "generate"
    /\ \/ /\ task' = [task EXCEPT ![t] =
                        [Logged(@, "generate", "", <<>>, "Exception")
                            EXCEPT !.gen = "failed", !.pc = "send_apology"]]
          /\ UNCHANGED user_conversations
       \/ \E text \in ReplyTexts, plan \in ReplyPlans, visible \in BOOLEAN :
            ReplyReceived(t, text, plan, visible)
    /\ UNCHANGED <<guild, nextSid>>

\* Line 122.
MessageSendReply(t) ==
    /\ task[t].kind = "message"
    /\ task[t].pc = "send_reply"
    /\ \E res \in SendResults :
         task' = [task EXCEPT ![t] =
                    LET r == Logged(@, "send", "reply", <<>>, res)
                    IN  IF res = "ok" THEN Finished(r) ELSE [r EXCEPT !.pc = "send_apology"]]
    /\ UNCHANGED <<user_conversations, guild, nextSid>>

\* Lines 124-128: the apology is sent, then the session is removed.
MessageApology(t) ==
    /\ task[t].kind = "message"
    /\ task[t].pc = "send_apology"
    /\ \E res \in SendResults :
         /\ task' = [task EXCEPT ![t] = IF res = "ok" THEN Finished(@) ELSE Crashed(@)]
         /\ user_conversations' =
               IF res = "ok"
               THEN [user_conversations EXCEPT ![task[t].user] = None]
               ELSE user_conversations
    /\ UNCHANGED <<guild, nextSid>>

(***************************************************************************)
(* handle_json_and_create_server                                           *)
(***************************************************************************)
\* A send inside on_message's try: a failure goes to the handler of line 124.
AfterSend(t, r, res) ==
    IF res = "ok"
    THEN ReturnToOnMessage(t, r)
    ELSE /\ task' = [task EXCEPT ![t] = [r EXCEPT !.pc = "send_apology"]]
         /\ UNCHANGED user_conversations

\* Lines 203-205.
HandleNoGuild(t) ==
    /\ task[t].kind = "message"
    /\ task[t].pc = "send_nosee"
    /\ \E res \in SendResults :
         AfterSend(t, Logged(task[t], "send", "nosee", <<>>, res), res)
    /\ UNCHANGED <<guild, nextSid>>

\* Lines 209-215 and 229-236: the extraction, and the entry of
\* create_server_from_json up to guild.edit.
ExtractAndEnter(r) ==
    IF r.extract = "IndexError" THEN [r EXCEPT !.pc = "send_fmterr"]
    ELSE IF r.extract = "JSONDecodeError" THEN [r EXCEPT !.pc = "send_jsonerr"]
    ELSE IF ~r.plan.is_object THEN [r EXCEPT !.pc = "notify_crit"]
    ELSE [r EXCEPT !.pc = "rename"]

\* Line 207.
HandleGreat(t) ==
    /\ task[t].kind = "message"
    /\ task[t].pc = "send_great"
    /\ \E res \in SendResults :
         task' = [task EXCEPT ![t] =
                    LET r == Logged(@, "send", "great", <<>>, res)
                    IN  IF res = "ok" THEN ExtractAndEnter(r)
                        ELSE [r EXCEPT !.pc = "send_apology"]]
    /\ UNCHANGED <<user_conversations, guild, nextSid>>

\* Lines 217-222.
HandleMalformed(t) ==
    /\ task[t].kind = "message"
    /\ task[t].pc \in {"send_jsonerr", "send_fmterr"}
    /\ \E res \in SendResults :
         AfterSend(t, Logged(task[t], "send", task[t].pc, <<>>, res), res)
    /\ UNCHANGED <<guild, nextSid>>

\* Lines 223-225.
HandleUnexpected(t) ==
    /\ task[t].kind = "message"
    /\ task[t].pc = "send_unexpected"
    /\ \E res \in SendResults :
         AfterSend(t, Logged(task[t], "send", "unexpected", <<>>, res), res)
    /\ UNCHANGED <<guild, nextSid>>

(***************************************************************************)
(* create_server_from_json                                                 *)
(***************************************************************************)
\* role.is_default() or role.is_integration(), line 246.
Protected(role) == role.kind \in {"default", "integration"}

\* Lines 292-299: which handler takes an exception of the try body
\* (Forbidden is a subclass of HTTPException).
TopLevel(r, res) ==
    [r EXCEPT !.pc = IF res \in {"HTTPException", "Forbidden"} THEN "notify_http" ELSE "notify_crit"]

\* Lines 274-285 from channel entry j of category k on, and lines 267-271
\* from category k on, up to the next awaited call.
RECURSIVE CategoriesFrom(_, _)
RECURSIVE ChannelsFrom(_, _, _)
CategoriesFrom(r, k) ==
    IF k > Len(r.plan.categories) THEN [r EXCEPT !.pc = "notify_ok"]
    ELSE IF r.plan.categories[k].name = "" THEN CategoriesFrom(r, k + 1)
    ELSE [r EXCEPT !.pc = "create_category", !.cati = k, !.chi = 0]

ChannelsFrom(r, k, j) ==
    LET chans == r.plan.categories[k].channels
    IN  IF j > Len(chans) THEN CategoriesFrom(r, k + 1)
        ELSE IF TypeRaises(chans[j]) THEN CategoriesFrom(r, k + 1)
        ELSE IF chans[j].name = "" THEN ChannelsFrom(r, k, j + 1)
        ELSE IF CreateKind(ChannelType(chans[j])) = "none" THEN ChannelsFrom(r, k, j + 1)
        ELSE [r EXCEPT !.pc = "create_channel", !.cati = k, !.chi = j]

\* Lines 255-260 from role entry i on.
RECURSIVE CreateRolesFrom(_, _)
CreateRolesFrom(r, i) ==
    IF i > Len(r.plan.roles) THEN CategoriesFrom(r, 1)
    ELSE IF r.plan.roles[i] \in {"", "@everyone"} THEN CreateRolesFrom(r, i + 1)
    ELSE [r EXCEPT !.pc = "create_role", !.pi = i]

\* Lines 245-249 from existing role i on.
RECURSIVE RoleWipeFrom(_, _)
RoleWipeFrom(r, i) ==
    IF i > Len(r.roles) THEN CreateRolesFrom(r, 1)
    ELSE IF Protected(r.roles[i]) THEN RoleWipeFrom(r, i + 1)
    ELSE [r EXCEPT !.pc = "delete_role", !.ri = i]

\* Line 245: guild.roles is read when the channel loop is over.
EnterRoleWipe(r, rl) ==
    RoleWipeFrom(Logged([r EXCEPT !.roles = rl], "roles", "", <<>>, "ok"), 1)

\* Lines 240-241 from fetched channel i on.
ChannelWipeFrom(r, i, rl) ==
    IF i > Len(r.chans) THEN EnterRoleWipe(r, rl)
    ELSE [r EXCEPT !.pc = "delete_channel", !.ci = i]

\* Lines 235-236.
ApplyRename(t) ==
    /\ task[t].kind = "message"
    /\ task[t].pc = "rename"
    /\ \E res \in ApiResults :
         task' = [task EXCEPT ![t] =
                    LET r == Logged(@, "edit", IF @.plan.has_name THEN "server_name" ELSE "guild.name",
                                    <<>>, res)
                    IN  IF res = "ok" THEN [r EXCEPT !.pc = "fetch_channels"] ELSE TopLevel(r, res)]
    /\ UNCHANGED <<user_conversations, guild, nextSid>>

\* Line 240: guild.fetch_channels().
ApplyFetchChannels(t) ==
    /\ task[t].kind = "message"
    /\ task[t].pc = "fetch_channels"
    /\ \E res \in ApiResults :
         task' = [task EXCEPT ![t] =
                    LET r == Logged(@, "fetch_channels", "", <<>>, res)
                        g == guild[@.guild]
                    IN  IF res = "ok"
                        THEN ChannelWipeFrom([r EXCEPT !.chans = Sorted(g.channels)], 1,
                                             RoleSeq(g.roles))
                        ELSE TopLevel(r, res)]
    /\ UNCHANGED <<user_conversations, guild, nextSid>>

\* Line 241: a failure is not caught inside the loop.
ChannelDeleteFailed(r, res) == TopLevel(r, res)

\* Lines 240-241.
ApplyDeleteChannel(t) ==
    /\ task[t].kind = "message"
    /\ task[t].pc = "delete_channel"
    /\ \E res \in ApiResults :
         LET old == task[t]
             c == old.chans[old.ci]
             r == Logged(old, "delete_channel", "", <<c>>, res)
         IN  IF res = "ok"
             THEN /\ guild' = [guild EXCEPT ![old.guild].channels = @ \ {c}]
                  /\ task' = [task EXCEPT ![t] =
                                ChannelWipeFrom(r, r.ci + 1, RoleSeq(guild[old.guild].roles))]
             ELSE /\ task' = [task EXCEPT ![t] = ChannelDeleteFailed(r, res)]
                  /\ UNCHANGED guild
    /\ UNCHANGED <<user_conversations, nextSid>>

\* Lines 250-251: only Forbidden is caught inside the loop.
RoleDeleteFailed(r, res) ==
    IF res = "Forbidden" THEN RoleWipeFrom(r, r.ri + 1) ELSE TopLevel(r, res)

\* Lines 248-251.
ApplyDeleteRole(t) ==
    /\ task[t].kind = "message"
    /\ task[t].pc = "delete_role"
    /\ \E res \in RoleDeleteResults :
         LET old == task[t]
             role == old.roles[old.ri]
             r == Logged(old, "delete_role", role.kind, <<role.id>>, res)
         IN  IF res = "ok"
             THEN /\ guild' = [guild EXCEPT ![old.guild].roles = @ \ {role}]
                  /\ task' = [task EXCEPT ![t] = RoleWipeFrom(r, r.ri + 1)]
             ELSE /\ task' = [task EXCEPT ![t] = RoleDeleteFailed(r, res)]
                  /\ UNCHANGED guild
    /\ UNCHANGED <<user_conversations, nextSid>>

CreateRoleFailedAborts(r) == TopLevel(r, "Exception")

\* Lines 262-263: the failure is printed and the loop goes on.
CreateRoleFailed(r) == CreateRolesFrom(r, r.pi + 1)

\* Lines 259-263.
ApplyCreateRole(t) ==
    /\ task[t].kind = "message"
    /\ task[t].pc = "create_role"
    /\ \E res \in CreateResults :
         LET old == task[t]
             r == Logged(old, "create_role", old.plan.roles[old.pi], <<old.pi>>, res)
             ids == {x.id : x \in guild[old.guild].roles}
         IN  IF res = "ok"
             THEN /\ guild' = [guild EXCEPT ![old.guild].roles =
                                  @ \cup {[id |-> FreshId(ids), kind |-> "normal"]}]
                  /\ task' = [task EXCEPT ![t] = CreateRolesFrom(r, r.pi + 1)]
             ELSE /\ task' = [task EXCEPT ![t] = CreateRoleFailed(r)]
                  /\ UNCHANGED guild
    /\ UNCHANGED <<user_conversations, nextSid>>

CreateCategoryFailedGoesOn(r) == ChannelsFrom(r, r.cati, 1)

\* Lines 286-287: the failure is printed and the next category is taken.
CreateCategoryFailed(r) == CategoriesFrom(r, r.cati + 1)

\* Lines 270-273 and 286-287.
ApplyCreateCategory(t) ==
    /\ task[t].kind = "message"
    /\ task[t].pc = "create_category"
    /\ \E res \in CreateResults :
         LET old == task[t]
             r == Logged(old, "create_category", "", <<old.cati>>, res)
         IN  IF res = "ok"
             THEN /\ guild' = [guild EXCEPT ![old.guild].channels = @ \cup {FreshId(@)}]
                  /\ task' = [task EXCEPT ![t] = ChannelsFrom(r, r.cati, 1)]
             ELSE /\ task' = [task EXCEPT ![t] = CreateCategoryFailed(r)]
                  /\ UNCHANGED guild
    /\ UNCHANGED <<user_conversations, nextSid>>

\* Lines 278-285.
ApplyCreateChannel(t) ==
    /\ task[t].kind = "message"
    /\ task[t].pc = "create_channel"
    /\ \E res \in CreateResults :
         LET old == task[t]
             e == old.plan.categories[old.cati].channels[old.chi]
             r == Logged(old, "create_channel", CreateKind(ChannelType(e)),
                         <<old.cati, old.chi>>, res)
         IN  /\ guild' = IF res = "ok"
                         THEN [guild EXCEPT ![old.guild].channels = @ \cup {FreshId(@)}]
                         ELSE guild
             /\ task' = [task EXCEPT ![t] = ChannelsFrom(r, r.cati, r.chi + 1)]
    /\ UNCHANGED <<user_conversations, nextSid>>

\* Lines 289-290: the send is inside the try of line 233.
ApplyNotifySuccess(t) ==
    /\ task[t].kind = "message"
    /\ task[t].pc = "notify_ok"
    /\ \E res \in ApiResults :
         LET r == Logged(task[t], "send", "success", <<>>, res)
         IN  IF res = "ok" THEN ReturnToOnMessage(t, r)
             ELSE /\ task' = [task EXCEPT ![t] = TopLevel(r, res)]
                  /\ UNCHANGED user_conversations
    /\ UNCHANGED <<guild, nextSid>>

\* Lines 292-299: a failure of this send reaches line 223.
ApplyNotifyFailure(t) ==
    /\ task[t].kind = "message"
    /\ task[t].pc \in {"notify_http", "notify_crit"}
    /\ \E res \in SendResults :
         LET r == Logged(task[t], "send", task[t].pc, <<>>, res)
         IN  IF res = "ok" THEN ReturnToOnMessage(t, r)
             ELSE /\ task' = [task EXCEPT ![t] = [r EXCEPT !.pc = "send_unexpected"]]
                  /\ UNCHANGED user_conversations
    /\ UNCHANGED <<guild, nextSid>>

(***************************************************************************)
(* Specifications                                                          *)
(***************************************************************************)
\* The dialogue: every interleaving of MaxTasks handler invocations, over
\* guilds that hold nothing to wipe and with a plan that names nothing to
\* build, so that the loops of create_server_from_json have no iteration.
Next ==
    \E t \in Tasks :
        \/ \E u \in Users, g \in Guilds, admin \in BOOLEAN : StartCommand(t, u, g, admin)
        \/ StartReject(t)
        \/ StartConfirm(t)
        \/ StartCreateDm(t)
        \/ StartGreeting(t)
        \/ StartFollowup(t)
        \/ \E u \in Users, dm \in BOOLEAN : OnMessage(t, u, dm)
        \/ MessageAppendUser(t)
        \/ MessageReply(t)
        \/ MessageSendReply(t)
        \/ MessageApology(t)
        \/ HandleNoGuild(t)
        \/ HandleGreat(t)
        \/ HandleMalformed(t)
        \/ HandleUnexpected(t)
        \/ ApplyRename(t)
        \/ ApplyFetchChannels(t)
        \/ ApplyNotifySuccess(t)
        \/ ApplyNotifyFailure(t)

Spec == Init /\ [][Next]_vars

\* One handler that has extracted a plan and enters create_server_from_json.
Extracted(plan) ==
    [IdleTask EXCEPT !.kind = "message", !.user = 1, !.guild = 1, !.sid = 1,
                     !.gen = "ok", !.marker = TRUE, !.extract = "object",
                     !.plan = plan, !.pc = "rename", !.rsid = 1,
                     !.reply = <<"F", "json", "NL", "JO", "NL", "F">>,
                     !.log = << Ev("typing", "", <<>>, "ok"), Ev("generate", "", <<>>, "ok"),
                                Ev("send", "great", <<>>, "ok") >>]

\* The same handler once the rename and the wipe of an empty guild are over.
Wiped(plan) ==
    ChannelWipeFrom(
        Logged(Logged(Extracted(plan), "edit", "server_name", <<>>, "ok"),
               "fetch_channels", "", <<>>, "ok"),
        1, <<DefaultRole>>)

\* The roles a guild may hold besides the default role.
ExistingRoles ==
    { {DefaultRole} \cup {[id |-> i + 1, kind |-> s[i]] : i \in 1..Len(s)} :
        s \in SeqsUpTo({"integration", "normal"}, MaxExistingRoles) }

\* The reconfiguration alone: one handler that holds an extracted plan, over
\* every guild and every plan within the bounds, from the entry of
\* create_server_from_json until it returns or raises.
InitApply ==
    /\ user_conversations =
          [u \in Users |->
              IF u = 1
              THEN [messages |-> <<SystemTurn, UserTurn, AssistantTurn>>, guild_id |-> 1, sid |-> 1]
              ELSE None]
    /\ nextSid = 2
    /\ \/ \E plan \in RolePlans, n \in 0..MaxExistingChannels, rs \in ExistingRoles :
            /\ task = [t \in Tasks |-> IF t = 1 THEN Extracted(plan) ELSE IdleTask]
            /\ guild = [g \in Guilds |->
                          IF g = 1 THEN [channels |-> 1..n, roles |-> rs] ELSE EmptyGuild]
       \/ \E plan \in CategoryPlans :
            /\ task = [t \in Tasks |-> IF t = 1 THEN Wiped(plan) ELSE IdleTask]
            /\ guild = [g \in Guilds |-> EmptyGuild]

NextApply ==
    \E t \in Tasks :
        \/ ApplyRename(t)
        \/ ApplyFetchChannels(t)
        \/ ApplyDeleteChannel(t)
        \/ ApplyDeleteRole(t)
        \/ ApplyCreateRole(t)
        \/ ApplyCreateCategory(t)
        \/ ApplyCreateChannel(t)
        \/ ApplyNotifySuccess(t)
        \/ ApplyNotifyFailure(t)

SpecApply == InitApply /\ [][NextApply]_vars

(***************************************************************************)
(* Properties                                                              *)
(***************************************************************************)
MessageTasks == {t \in Tasks : task[t].kind = "message"}

\* The handler t returns or dies in this step.
Ends(t) == task[t].kind \in {"start", "message"} /\ task'[t].kind = "over"

\* Some call `op` is in the log of r, with argument arg / with a failure.
Called(r, op) == \E i \in 1..Len(r.log) : r.log[i].op = op
CalledWith(r, op, arg) ==
    \E i \in 1..Len(r.log) : r.log[i].op = op /\ r.log[i].arg = arg
FailedCall(r, op) ==
    \E i \in 1..Len(r.log) : r.log[i].op = op /\ r.log[i].res # "ok"
Sent(r, what) ==
    \E i \in 1..Len(r.log) : r.log[i].op = "send" /\ r.log[i].what = what
Delivered(r, what) ==
    \E i \in 1..Len(r.log) :
        r.log[i].op = "send" /\ r.log[i].what = what /\ r.log[i].res = "ok"

\* The loops of create_server_from_json are over.
ApplyOver(r) ==
    r.pc \in {"notify_ok", "notify_http", "notify_crit", "send_unexpected", "send_apology"}

\* The steps of the procedure, read off the log.
ChannelWipeComplete(r) ==
    \A i \in 1..Len(r.chans) : CalledWith(r, "delete_channel", <<r.chans[i]>>)
RoleWipeReached(r) == Called(r, "roles")
RoleWipeComplete(r) ==
    \A i \in 1..Len(r.roles) :
        ~Protected(r.roles[i]) => CalledWith(r, "delete_role", <<r.roles[i].id>>)
RolesAttempted(r) ==
    \A i \in 1..Len(r.plan.roles) :
        r.plan.roles[i] \notin {"", "@everyone"} => CalledWith(r, "create_role", <<i>>)
CategoriesAttempted(r) ==
    \A k \in 1..Len(r.plan.categories) :
        r.plan.categories[k].name # "" => CalledWith(r, "create_category", <<k>>)
RebuildRan(r) == RolesAttempted(r) /\ CategoriesAttempted(r)

\* `user_id in user_conversations` in the next state.
StillHasConversation(u) == user_conversations'[u] # None

GenerateCalls(r) == Cardinality({i \in 1..Len(r.log) : r.log[i].op = "generate"})

\* C1 (session exclusivity): the store never holds two sessions of one user,
\* and a /start of a user who has a session is rejected: the invocation goes
\* to its rejection message, and neither its dispatch nor the sending of the
\* rejection changes the store (no new session; messages and guild_id of the
\* existing one unchanged).
OpenSessions == {u \in Users : HasConversation(u)}
OnePerUser ==
    \A u, v \in OpenSessions : user_conversations[u].sid = user_conversations[v].sid => u = v
SessionExclusivity ==
    [][ /\ OnePerUser'
        /\ \A t \in Tasks :
             /\ ( /\ task[t].kind = "idle"
                  /\ task'[t].kind = "start"
                  /\ HasConversation(task'[t].user) )
                => ( /\ task'[t].pc \in {"send_notadmin", "send_duplicate"}
                     /\ user_conversations' = user_conversations
                     /\ nextSid' = nextSid )
             /\ ( /\ task[t].kind = "start"
                  /\ task[t].pc = "send_duplicate"
                  /\ task'[t] # task[t] )
                => user_conversations' = user_conversations
      ]_vars

\* A second /start, from another guild, is being rejected while the session
\* of the first one holds a user turn.
SecondStartRejected ==
    \E t \in Tasks :
        /\ task[t].kind = "start"
        /\ task[t].pc = "send_duplicate"
        /\ HasConversation(task[t].user)
        /\ user_conversations[task[t].user].guild_id # task[t].guild
        /\ Len(user_conversations[task[t].user].messages) > 1

\* C2 (malformed payload keeps the session): when the extraction of lines
\* 211-212 has run on a reply that holds the marker and has raised (the JSON
\* does not parse, or the opening delimiter is not found), the handler ends
\* without an uncaught exception, the malformed-payload message has been
\* delivered, and the user's session still exists when the handler ends.
ExtractionRaised(r) ==
    /\ r.kind = "message"
    /\ r.marker
    /\ r.extract \in {"JSONDecodeError", "IndexError"}
    /\ Delivered(r, "great")
MalformedKeepsSession ==
    [][ \A t \in Tasks :
            (ExtractionRaised(task[t]) /\ Ends(t))
            => ( /\ task'[t].pc = "done"
                 /\ task[t].pc \in {"send_jsonerr", "send_fmterr"}
                 /\ StillHasConversation(task[t].user) )
      ]_vars

\* C3 (generation failure ends the session): when the generation call of a
\* handler has raised, the handler makes no second call, it ends having
\* delivered the apology, and no session exists for the user when it ends.
GenerationFailureEndsSession ==
    [][ \A t \in Tasks :
            (task[t].kind = "message" /\ task[t].gen = "failed")
            => ( /\ task'[t].kind = "message" => GenerateCalls(task'[t]) = 1
                 /\ Ends(t) => ( /\ task[t].pc = "send_apology"
                                 /\ task'[t].pc = "done"
                                 /\ ~StillHasConversation(task[t].user) ) )
      ]_vars

\* C8 (turn ordering): the messages of a session are the system turn followed
\* by user, assistant, user, assistant, ... (the last one possibly a user
\* turn), and they only grow while the session lives.
Alternates(m) ==
    /\ m # <<>>
    /\ m[1] = SystemTurn
    /\ \A i \in 2..Len(m) : m[i] = IF i % 2 = 0 THEN UserTurn ELSE AssistantTurn
IsPrefix(a, b) == Len(a) <= Len(b) /\ SubSeq(b, 1, Len(a)) = a
TurnOrdering ==
    [][ \A u \in Users :
            /\ HasConversation(u)' => Alternates(user_conversations[u].messages)'
            /\ ( /\ HasConversation(u)
                 /\ HasConversation(u)'
                 /\ user_conversations'[u].sid = user_conversations[u].sid )
               => IsPrefix(user_conversations[u].messages, user_conversations'[u].messages)
      ]_vars

\* C4 (channel wipe tolerates per-channel failure): when the deletion of a
\* channel has failed, then once the loops are over a deletion has been
\* attempted for every fetched channel, the role wipe has been entered and
\* completed as far as it is attempted, and the rebuild steps have run.
ChannelWipeTolerant ==
    \A t \in MessageTasks :
        (ApplyOver(task[t]) /\ FailedCall(task[t], "delete_channel"))
        => ( /\ ChannelWipeComplete(task[t])
             /\ RoleWipeReached(task[t])
             /\ RebuildRan(task[t]) )

\* C5 (rename failure is not fatal): when guild.edit has failed, the procedure
\* still fetches and wipes the channels, wipes the roles and rebuilds.
RenameNotFatal ==
    \A t \in MessageTasks :
        (ApplyOver(task[t]) /\ FailedCall(task[t], "edit"))
        => ( /\ Called(task[t], "fetch_channels")
             /\ RoleWipeReached(task[t])
             /\ RebuildRan(task[t]) )

\* C6 (role creation tolerates failures): when the creation of a role has
\* failed, the procedure stays in the rebuild until its loops are over, and
\* then a creation has been attempted for every role entry with a non-empty
\* name other than @everyone and for every named category, and the success
\* notification is the next call or has been attempted.
RoleCreationTolerant ==
    \A t \in MessageTasks :
        FailedCall(task[t], "create_role")
        => ( /\ ( \/ task[t].pc \in {"create_role", "create_category", "create_channel"}
                   \/ ApplyOver(task[t]) )
             /\ ApplyOver(task[t])
                => ( /\ RolesAttempted(task[t])
                     /\ CategoriesAttempted(task[t])
                     /\ (task[t].pc = "notify_ok" \/ Sent(task[t], "success")) ) )

\* The first of two roles failed, the second was attempted, the category and
\* its channel were attempted, and the success notification is next.
RoleFailureSurvived ==
    \E t \in MessageTasks :
        /\ task[t].pc = "notify_ok"
        /\ Len(task[t].plan.roles) = 2
        /\ \E i \in 1..Len(task[t].log) :
              /\ task[t].log[i] = Ev("create_role", "Admin", <<1>>, "Exception")
              /\ \E j \in (i + 1)..Len(task[t].log) : task[t].log[j].op = "create_role"
        /\ CalledWith(task[t], "create_category", <<1>>)
        /\ CalledWith(task[t], "create_channel", <<1, 1>>)

\* C7 (default-role preservation): once guild.roles has been read and the
\* loops are over, no deletion has been issued for the default role or an
\* integration role, and a deletion has been attempted for every other role.
DefaultRolePreserved ==
    \A t \in MessageTasks :
        (ApplyOver(task[t]) /\ RoleWipeReached(task[t]))
        => ( /\ \A i \in 1..Len(task[t].roles) :
                   Protected(task[t].roles[i])
                   => ~CalledWith(task[t], "delete_role", <<task[t].roles[i].id>>)
             /\ RoleWipeComplete(task[t]) )

\* The create calls issued for channel entry j of category k.
ChannelCalls(r, k, j) ==
    {i \in 1..Len(r.log) : r.log[i].op = "create_channel" /\ r.log[i].arg = <<k, j>>}

\* Entry j of category k has a name, its category was created, and no entry
\* before it in the category stops the loop (line 276 raising).
EntryReached(r, k, j) ==
    /\ r.plan.categories[k].name # ""
    /\ \E i \in 1..Len(r.log) : r.log[i] = Ev("create_category", "", <<k>>, "ok")
    /\ r.plan.categories[k].channels[j].name # ""
    /\ \A h \in 1..j : ~TypeRaises(r.plan.categories[k].channels[h])

Entries(r) ==
    UNION { { <<k, j>> : j \in 1..Len(r.plan.categories[k].channels) }
            : k \in 1..Len(r.plan.categories) }

\* C9 (unrecognized kind defaults to text): for every channel entry with a
\* name in a created category, exactly one channel creation is attempted,
\* voice when the type lower-cases to "voice" and text for any other string
\* or a missing type.
DefaultedKind(e) == IF Lower(TypeOrDefault(e)) = StrVoice THEN "voice" ELSE "text"
UnrecognizedKindIsText ==
    \A t \in MessageTasks :
        ApplyOver(task[t])
        => \A kj \in Entries(task[t]) :
              EntryReached(task[t], kj[1], kj[2])
              => ( /\ Cardinality(ChannelCalls(task[t], kj[1], kj[2])) = 1
                   /\ \A i \in ChannelCalls(task[t], kj[1], kj[2]) :
                         task[t].log[i].what =
                            DefaultedKind(task[t].plan.categories[kj[1]].channels[kj[2]]) )

\* C10 (case-insensitive kind, missing type): an entry whose type is "TEXT",
\* "Text" or "text", or that has no type, gets exactly one create call, for a
\* text channel, and one whose type is "voice" or "Voice" exactly one, for a
\* voice channel; the call names the category of the entry.
ClaimedText(e) ==
    \/ e.tkind = "missing"
    \/ e.tkind = "str" /\ e.tval \in {<<"T", "E", "X", "T">>, <<"T", "e", "x", "t">>, <<"t", "e", "x", "t">>}
ClaimedVoice(e) ==
    e.tkind = "str" /\ e.tval \in {<<"v", "o", "i", "c", "e">>, <<"V", "o", "i", "c", "e">>}
KindCaseInsensitive ==
    \A t \in MessageTasks :
        \A kj \in Entries(task[t]) :
            LET e == task[t].plan.categories[kj[1]].channels[kj[2]]
                calls == ChannelCalls(task[t], kj[1], kj[2])
            IN  (ClaimedText(e) \/ ClaimedVoice(e))
                => ( /\ \A i \in calls :
                           task[t].log[i].what = IF ClaimedText(e) THEN "text" ELSE "voice"
                     /\ Cardinality(calls) <= 1
                     /\ (ApplyOver(task[t]) /\ EntryReached(task[t], kj[1], kj[2]))
                        => Cardinality(calls) = 1 )

\* An entry typed "TEXT" got a text channel and one typed "Voice" a voice
\* channel, in the same category.
MixedCaseCreated ==
    \E t \in MessageTasks :
        /\ ApplyOver(task[t])
        /\ \E k \in 1..Len(task[t].plan.categories) :
              LET cs == task[t].plan.categories[k].channels
              IN  /\ Len(cs) = 2
                  /\ cs[1].tval = <<"T", "E", "X", "T">>
                  /\ cs[2].tval = <<"V", "o", "i", "c", "e">>
                  /\ \E i \in ChannelCalls(task[t], k, 1) : task[t].log[i].what = "text"
                  /\ \E i \in ChannelCalls(task[t], k, 2) : task[t].log[i].what = "voice"

\* The loop of lines 274-285 has come to entry j of category k: the category
\* was created and line 276 has raised for no entry before it.
Processed(r, k, j) ==
    /\ \E i \in 1..Len(r.log) : r.log[i] = Ev("create_category", "", <<k>>, "ok")
    /\ \A h \in 1..(j - 1) : ~TypeRaises(r.plan.categories[k].channels[h])

\* Creating or processing entry j of category k has failed.
ChannelFailed(r, k, j) ==
    /\ Processed(r, k, j)
    /\ \/ TypeRaises(r.plan.categories[k].channels[j])
       \/ \E i \in ChannelCalls(r, k, j) : r.log[i].res # "ok"

\* C11 (category/channel failure isolation): no channel creation is ever
\* issued for a category whose creation failed, and once the loops are over
\* every named category after a failed one has been attempted, and when
\* creating or processing one channel entry has failed every other entry of
\* that category with a name and a text or voice type has been attempted.
FailureIsolation ==
    \A t \in MessageTasks :
        LET r == task[t]
        IN  /\ \A k \in 1..Len(r.plan.categories) :
                  (\E i \in 1..Len(r.log) : r.log[i] = Ev("create_category", "", <<k>>, "Exception"))
                  => ( /\ \A i \in 1..Len(r.log) :
                            r.log[i].op = "create_channel" => r.log[i].arg[1] # k
                       /\ ApplyOver(r)
                          => \A k2 \in (k + 1)..Len(r.plan.categories) :
                                r.plan.categories[k2].name # ""
                                => CalledWith(r, "create_category", <<k2>>) )
            /\ ApplyOver(r)
               => \A kj \in Entries(r) :
                     ChannelFailed(r, kj[1], kj[2])
                     => \A j2 \in 1..Len(r.plan.categories[kj[1]].channels) :
                           LET e == r.plan.categories[kj[1]].channels[j2]
                           IN  (j2 # kj[2] /\ e.name # "" /\ (ClaimedText(e) \/ ClaimedVoice(e)))
                               => ChannelCalls(r, kj[1], j2) # {}

\* The calls create_server_from_json issues against a guild.
MutationOps ==
    {"edit", "fetch_channels", "delete_channel", "delete_role", "create_role",
     "create_category", "create_channel"}
Mutated(r) == \E i \in 1..Len(r.log) : r.log[i].op \in MutationOps

\* C12 (unreachable target aborts before mutation): when bot.get_guild finds
\* no guild for the session of a terminal reply, the next call of the handler
\* is the "I can no longer see the server" message, the handler never goes on
\* to the extraction, and it issues no rename, fetch, delete or create call.
UnreachableAborts ==
    \A t \in MessageTasks :
        LET r == task[t]
        IN  (r.marker /\ ~r.visible)
            => ( /\ r.pc \in {"send_nosee", "send_apology"}
                 /\ r.pc = "send_apology" => Sent(r, "nosee")
                 /\ ~Sent(r, "great")
                 /\ ~Mutated(r) )

\* The reply held a valid plan, the guild was not found, the message has been
\* sent and nothing else was called.
UnreachableReported ==
    \E t \in MessageTasks :
        /\ task[t].marker
        /\ ~task[t].visible
        /\ task[t].extract = "object"
        /\ Sent(task[t], "nosee")
        /\ ~Mutated(task[t])

\* C13 (a terminal reply ends the session): when the handler of a reply from
\* which a plan was extracted ends, no session exists for its user.
PlanExtracted(r) ==
    /\ r.kind = "message"
    /\ r.marker
    /\ r.extract = "object"
    /\ Delivered(r, "great")
TerminalEndsSession ==
    [][ \A t \in Tasks :
            (PlanExtracted(task[t]) /\ Ends(t)) => ~StillHasConversation(task[t].user)
      ]_vars

\* C14 (undeliverable greeting): when /start has created a session and
\* create_dm or the greeting has failed, no session exists for the user when
\* the handler ends.
GreetingFailed(r) ==
    /\ r.kind = "start"
    /\ r.sid # 0
    /\ \/ FailedCall(r, "create_dm")
       \/ \E i \in 1..Len(r.log) :
             r.log[i].op = "send" /\ r.log[i].what = "greeting" /\ r.log[i].res # "ok"
GreetingFailureEndsSession ==
    [][ \A t \in Tasks :
            (GreetingFailed(task[t]) /\ Ends(t)) => ~StillHasConversation(task[t].user)
      ]_vars

\* C15 (an utterance without a session is ignored): a handler of on_message
\* goes past line 96 only for a user who has a session; the handler of a
\* direct message from a user without one returns in the step of its
\* dispatch, which changes neither the store nor a guild nor another handler,
\* and it makes no call afterwards.
IgnoredWithoutSession ==
    [][ \A t \in Tasks :
            /\ (task[t].kind = "idle" /\ task'[t].kind = "message")
               => HasConversation(task'[t].user)
            /\ (task[t].kind = "idle" /\ task'[t].pc = "ignored")
               => ( /\ user_conversations' = user_conversations
                    /\ guild' = guild
                    /\ nextSid' = nextSid
                    /\ task'[t].log = <<>>
                    /\ \A s \in Tasks \ {t} : task'[s] = task[s] )
            /\ task[t].pc = "ignored" => task'[t] = task[t]
      ]_vars

\* A direct message was ignored while a session of some user is open and a
\* handler of that session is in flight.
MessageIgnored ==
    /\ \E t \in Tasks : task[t].pc = "ignored"
    /\ \E u \in Users : HasConversation(u) /\ \E v \in Users : ~HasConversation(v)
    /\ \E t \in MessageTasks : task[t].pc = "generate"

\* The text after the first opening delimiter, whether a closing fence
\* follows it, and the text strictly between the two.
AfterOpen(text) ==
    SubSeq(text, FirstIdx(text, OpenSep) + Len(OpenSep), Len(text))
FencesLocated(text) ==
    /\ Contains(text, OpenSep)
    /\ Contains(AfterOpen(text), CloseSep)
Between(text) ==
    SubSeq(AfterOpen(text), 1, FirstIdx(AfterOpen(text), CloseSep) - 1)

\* C16 (extraction): a handler whose reply lacks the marker only sends the
\* reply (or the apology) and never enters handle_json_and_create_server; a
\* handler whose reply holds the marker and that has come to the extraction
\* obtains what json.loads gives for the text between the first opening
\* delimiter and the first closing fence after it, a failure being reported
\* when the two cannot be located, and it enters the reconfiguration only
\* with an object parsed from that text.
ExtractionCorrect ==
    \A t \in MessageTasks :
        LET r == task[t]
        IN  r.gen = "ok"
            => ( /\ ~Contains(r.reply, Marker)
                    => ( /\ r.pc \in {"send_reply", "send_apology"}
                         /\ ~Sent(r, "great")
                         /\ ~Sent(r, "nosee")
                         /\ ~Mutated(r) )
                 /\ (Contains(r.reply, Marker) /\ Delivered(r, "great"))
                    => ( /\ FencesLocated(r.reply)
                            => r.extract = JsonLoads(Between(r.reply))
                         /\ ~FencesLocated(r.reply)
                            => r.extract \in {"IndexError", "JSONDecodeError"}
                         /\ (r.pc = "rename" \/ Mutated(r))
                            => ( /\ FencesLocated(r.reply)
                                 /\ JsonLoads(Between(r.reply)) = "object" ) ) )

\* The place of a call in the order of create_server_from_json.
Phase(e) ==
    CASE e.op = "edit" -> 1
      [] e.op = "fetch_channels" -> 2
      [] e.op = "delete_channel" -> 3
      [] e.op \in {"roles", "delete_role"} -> 4
      [] e.op = "create_role" -> 5
      [] e.op \in {"create_category", "create_channel"} -> 6
      [] e.op = "send" /\ e.what \in {"success", "notify_http", "notify_crit"} -> 7
      [] OTHER -> 0

\* C17 (fixed step ordering): in the calls of a handler the rename comes
\* before every fetch, delete and create, the channel deletions before the
\* role deletions, the deletions before the creations, the role creations
\* before the category creations, and the notification after all of them
\* (each call is of the phase of the call before it or of a later one); a
\* channel creation comes straight after the successful creation of its own
\* category or after another channel creation of that category.
StepOrdering ==
    \A t \in MessageTasks :
        LET log == task[t].log
        IN  /\ \A i \in 1..(Len(log) - 1) : Phase(log[i]) <= Phase(log[i + 1])
            /\ \A j \in 1..Len(log) :
                  Phase(log[j]) \in 2..6
                  => \E i \in 1..(j - 1) : log[i].op = "edit" /\ log[i].res = "ok"
            /\ Cardinality({i \in 1..Len(log) : log[i].op = "edit"}) <= 1
            /\ \A j \in 1..Len(log) :
                  log[j].op = "create_channel"
                  => ( /\ j > 1
                       /\ \/ log[j - 1] = Ev("create_category", "", <<log[j].arg[1]>>, "ok")
                          \/ ( /\ log[j - 1].op = "create_channel"
                               /\ log[j - 1].arg[1] = log[j].arg[1] ) )

\* A run that deleted a channel and a role, created a role, a category and a
\* channel, and is about to send the success notification.
FullRunOrdered ==
    \E t \in MessageTasks :
        /\ task[t].pc = "notify_ok"
        /\ \A op \in {"edit", "delete_channel", "delete_role", "create_role",
                       "create_category", "create_channel"} : Called(task[t], op)

\* The handler has entered create_server_from_json with a plan.
Reconfiguring(r) ==
    /\ r.kind = "message"
    /\ r.pc = "rename" \/ Mutated(r)

\* C18 (at most one reconfiguration per session): no two handlers are in the
\* reconfiguration started from a reply of the same session.
OneReconfigurationPerSession ==
    \A t1, t2 \in MessageTasks :
        (t1 # t2 /\ Reconfiguring(task[t1]) /\ Reconfiguring(task[t2]))
        => task[t1].rsid # task[t2].rsid

\* C19 (apology only on generation failure): a handler goes to the apology of
\* lines 124-128 only when its own generation call has failed, and a reply
\* that is appended goes to the session that received the utterance.
ApologyOnlyOnGenerationFailure ==
    [][ \A t \in Tasks :
            task[t].kind = "message"
            => ( /\ (task[t].pc # "send_apology" /\ task'[t].pc = "send_apology")
                    => task'[t].gen = "failed"
                 /\ ( /\ task[t].pc = "generate"
                      /\ task'[t].gen = "ok"
                      /\ task'[t].pc # "send_apology" )
                    => task'[t].rsid = task[t].sid )
      ]_vars

\* C20 (cross-user independence): a step of a handler leaves the entry of
\* every user other than the handler's own as it was.
CrossUserIndependence ==
    [][ \A t \in Tasks :
            task'[t] # task[t]
            => \A b \in Users :
                  b # (IF task[t].kind = "idle" THEN task'[t].user ELSE task[t].user)
                  => user_conversations'[b] = user_conversations[b]
      ]_vars

\* A user started a session and sent an utterance, now in flight, after
\* another user's session was opened; that session holds its system turn only.
OtherSessionUntouched ==
    \E a, b \in Users :
        /\ a # b
        /\ HasConversation(a)
        /\ HasConversation(b)
        /\ user_conversations[b].sid < user_conversations[a].sid
        /\ user_conversations[b].messages = <<SystemTurn>>
        /\ Len(user_conversations[a].messages) >= 2
        /\ \E t \in MessageTasks : task[t].user = a /\ task[t].pc = "generate"

====
